---- MODULE Spec2Model ----
(***************************************************************************)
(* A model of three components of prefect:                                 *)
(*   prefect/utilities/collections.py  (dict_to_flatdict, flatdict_to_dict,*)
(*                                      extract_instances, batched_iterable)*)
(*   prefect/variables.py              (get)                               *)
(*   prefect/core/flow.py              (Flow, flow)                        *)
(* Each component has its own specification over its own variables; the    *)
(* variables of the other components stay at their idle values.            *)
(***************************************************************************)
EXTENDS Integers, Sequences, FiniteSets, TLC

VARIABLES
    rt_mode,     \* which round trip is driven: "nested" (flatten first) or "flat"
    rt_in0,      \* the argument of the first call, as it was passed
    rt_in,       \* the same object after the calls (flatdict_to_dict may alias it)
    rt_cur,      \* outcome of the last call: a returned dict or a raised exception
    rt_calls     \* names of the collection functions called so far

VARIABLES
    b_src,       \* batched_iterable: the iterable, [items, cyclic]
    b_size,      \* the size argument
    b_pos,       \* number of elements the generator has taken from iter(iterable)
    b_out,       \* the batches yielded so far
    b_pc         \* "running", "done" (StopIteration) or "raised"

VARIABLES
    ex_objects,  \* extract_instances: the objects argument
    ex_types,    \* the types argument, [single, ts]
    ex_ret       \* what the call returned, [kind, list, map]

VARIABLES
    v_store,     \* the remote variables: name -> [isNone, value], None when there is none
    v_call       \* the last variables.get call: its arguments, what the boundary
                 \* did and what the call did

VARIABLES
    flows,       \* the Flow objects constructed so far
    deferred,    \* the name arguments of the deferred constructors flow(name=...) returned
    ctor,        \* the last call of Flow(...), flow(...) or a deferred constructor
    inv,         \* the invocations Flow.__call__ of each caller, with their locals
    runs         \* the flow runs the orchestration API has created, in order

rtVars == <<rt_mode, rt_in0, rt_in, rt_cur, rt_calls>>
bVars == <<b_src, b_size, b_pos, b_out, b_pc>>
exVars == <<ex_objects, ex_types, ex_ret>>
vVars == <<v_store, v_call>>
fVars == <<flows, deferred, ctor, inv, runs>>

vars == <<rtVars, bVars, exVars, vVars, fVars>>

(***************************************************************************)
(* Bounds of the model.                                                    *)
(***************************************************************************)
MaxDepth == 2       \* nesting depth of the nested mappings drawn
MaxPathLen == 2     \* length of the key tuples of the flat mappings drawn
MaxEntries == 2     \* number of entries of the flat mappings drawn
MaxSrcLen == 7      \* length of the sequences batched
MaxSize == 4        \* largest batch size
MaxYield == 4       \* batches taken from an unbounded iterable before the consumer stops
MaxObjects == 3     \* length of the objects list of extract_instances
MaxTypes == 2       \* length of the tuple of types of extract_instances
NumCalls == 2       \* callers that invoke flows concurrently
MaxArgs == 1        \* positional arguments of an invocation

Keys == {"a", "b"}
Leaves == {1, 2}

(***************************************************************************)
(* Python values.  A dict is an insertion-ordered sequence of entries with *)
(* pairwise distinct keys; every value carries a tag so that a leaf and a  *)
(* dict can be told apart (isinstance(v, dict)).                           *)
(***************************************************************************)
Leaf(x) == [tag |-> "leaf", v |-> x, items |-> <<>>]
Dict(its) == [tag |-> "dict", v |-> 0, items |-> its]
EmptyDict == Dict(<<>>)
IsDict(x) == x.tag = "dict"
Entry(key, val) == [k |-> key, v |-> val]

Returned(x) == [ok |-> TRUE, val |-> x, exc |-> "none"]
Raised(e) == [ok |-> FALSE, val |-> EmptyDict, exc |-> e]

DictKeys(d) == {d.items[i].k : i \in 1..Len(d.items)}
HasKey(d, key) == \E i \in 1..Len(d.items) : d.items[i].k = key
DictGet(d, key) == d.items[CHOOSE i \in 1..Len(d.items) : d.items[i].k = key].v

\* d[key] = val: an existing key keeps its position, a new key is appended.
DictSet(d, key, val) ==
    IF HasKey(d, key)
    THEN Dict([i \in 1..Len(d.items) |->
                 IF d.items[i].k = key THEN Entry(key, val) ELSE d.items[i]])
    ELSE Dict(Append(d.items, Entry(key, val)))

\* dict(items): built by inserting the pairs in order.
RECURSIVE DictFromItems(_, _)
DictFromItems(its, acc) ==
    IF its = <<>> THEN acc
    ELSE DictFromItems(Tail(its), DictSet(acc, Head(its).k, Head(its).v))

\* Python's == on values: dicts compare by key set and values, not by order.
RECURSIVE PyEq(_, _)
PyEq(x, y) ==
    IF IsDict(x) /\ IsDict(y)
    THEN /\ DictKeys(x) = DictKeys(y)
         /\ \A key \in DictKeys(x) : PyEq(DictGet(x, key), DictGet(y, key))
    ELSE /\ ~IsDict(x)
         /\ ~IsDict(y)
         /\ x.v = y.v

(***************************************************************************)
(* dict_to_flatdict(dct, _parent)                                          *)
(***************************************************************************)
\* FlatItems with k_parent = (k,): the keys above the innermost are dropped.
RECURSIVE FlatItemsDropsParent(_, _)
FlatItemsDropsParent(its, parent) ==
    IF its = <<>> THEN <<>>
    ELSE LET k_parent == <<Head(its).k>>
             v == Head(its).v
             here == IF IsDict(v)
                     THEN DictFromItems(FlatItemsDropsParent(v.items, k_parent),
                                        EmptyDict).items
                     ELSE <<Entry(k_parent, v)>>
         IN here \o FlatItemsDropsParent(Tail(its), parent)

RECURSIVE FlatItems(_, _)
FlatItems(its, parent) ==
    IF its = <<>> THEN <<>>
    ELSE LET k_parent == Append(parent, Head(its).k)
             v == Head(its).v
             here == IF IsDict(v)
                     THEN DictFromItems(FlatItems(v.items, k_parent), EmptyDict).items
                     ELSE <<Entry(k_parent, v)>>
         IN here \o FlatItems(Tail(its), parent)

dict_to_flatdict(dct) == DictFromItems(FlatItems(dct.items, <<>>), EmptyDict)

(***************************************************************************)
(* flatdict_to_dict(dct)                                                   *)
(***************************************************************************)
\* The inner loop and the final assignment for one key tuple, from current_dict.
RECURSIVE SetPath(_, _, _)
SetPath(current_dict, key_tuple, value) ==
    IF Len(key_tuple) = 1
    THEN IF IsDict(current_dict)
         THEN Returned(DictSet(current_dict, key_tuple[1], value))
         ELSE Raised("TypeError")
    ELSE IF ~IsDict(current_dict)
         THEN Raised("AttributeError")
         ELSE LET prefix_key == Head(key_tuple)
                  nxt == IF HasKey(current_dict, prefix_key)
                         THEN DictGet(current_dict, prefix_key)
                         ELSE EmptyDict
                  sub == SetPath(nxt, Tail(key_tuple), value)
              IN IF sub.ok
                 THEN Returned(DictSet(current_dict, prefix_key, sub.val))
                 ELSE sub

\* One iteration of the outer loop.
SetEntry(result, e) ==
    IF e.k = <<>> THEN Raised("IndexError") ELSE SetPath(result, e.k, e.v)

RECURSIVE UnflatLoop(_, _)
UnflatLoop(its, result) ==
    IF its = <<>> THEN Returned(result)
    ELSE LET r == SetEntry(result, Head(its))
         IN IF r.ok THEN UnflatLoop(Tail(its), r.val) ELSE r

flatdict_to_dict(dct) == UnflatLoop(dct.items, EmptyDict)

\* The value stored under a path of a nested dict.
RECURSIVE Subtree(_, _)
Subtree(d, path) ==
    IF path = <<>> THEN d ELSE Subtree(DictGet(d, Head(path)), Tail(path))

IsProperPrefix(p, q) == Len(p) < Len(q) /\ SubSeq(q, 1, Len(p)) = p

\* flatdict_to_dict stores the argument's values themselves in the result, so a
\* dict value of the argument is the same object as the nested dict under its key
\* tuple, and later iterations that walk through it change the argument too.  The
\* value stays shared until a later key tuple that is a proper prefix replaces an
\* enclosing entry.  ArgAfter gives the argument's items after n iterations.
Attached(its, i, n) ==
    \A j \in (i + 1)..n : ~IsProperPrefix(its[j].k, its[i].k)

RECURSIVE ArgAfter(_, _, _)
ArgAfter(its, n, result) ==
    \* result: the nested dict after n - 1 iterations; its: items after n - 1
    IF n > Len(its) THEN its
    ELSE LET r == SetEntry(result, its[n])
         IN IF ~r.ok THEN its
            ELSE ArgAfter(
                   [i \in 1..Len(its) |->
                      IF /\ i < n
                         /\ IsDict(its[i].v)
                         /\ Attached(its, i, n)
                      THEN Entry(its[i].k, Subtree(r.val, its[i].k))
                      ELSE its[i]],
                   n + 1, r.val)

(***************************************************************************)
(* The mappings the round trips are driven with.                           *)
(***************************************************************************)
Injective(s) == \A i, j \in DOMAIN s : i # j => s[i] # s[j]

MakeDict(ks, f) == Dict([i \in 1..Len(ks) |-> Entry(ks[i], f[i])])

KeySeqs == {ks \in UNION {[1..n -> Keys] : n \in 0..Cardinality(Keys)} :
              Injective(ks)}

\* The values of a nested mapping of at most the given depth: the leaves and the
\* mappings of smaller depth.
RECURSIVE NestedVals(_)
NestedVals(depth) ==
    IF depth = 0 THEN {Leaf(x) : x \in Leaves}
    ELSE {Leaf(x) : x \in Leaves} \cup
         UNION {{MakeDict(ks, f) : f \in [1..Len(ks) -> NestedVals(depth - 1)]} :
                  ks \in KeySeqs}

Paths == UNION {[1..n -> Keys] : n \in 0..MaxPathLen}
PathSeqs == {ps \in UNION {[1..n -> Paths] : n \in 0..MaxEntries} : Injective(ps)}
FlatVals == {Leaf(x) : x \in Leaves} \cup {EmptyDict, Dict(<<Entry("a", Leaf(1))>>)}

(***************************************************************************)
(* Python values of the variable and flow components.                      *)
(***************************************************************************)
PyNone == [isNone |-> TRUE, value |-> ""]
Str(x) == [isNone |-> FALSE, value |-> x]

NoInvocation ==
    [pc |-> "idle", flow |-> [name |-> "", fn |-> "None"], args |-> <<>>,
     kwargs |-> <<>>, parameters |-> <<>>, flow_run_id |-> 0, called |-> FALSE,
     exc |-> "none", future |-> [made |-> FALSE, run_id |-> 0, result |-> 0]]

NoCtor == [op |-> "none", init |-> FALSE, fn |-> "None", name |-> "", exc |-> "none"]

IdleVariables ==
    /\ v_store = <<>>
    /\ v_call = [kind |-> "none"]

IdleFlow ==
    /\ flows = {}
    /\ deferred = {}
    /\ ctor = NoCtor
    /\ inv = <<>>
    /\ runs = <<>>

IdleBatch ==
    /\ b_src = [items |-> <<>>, cyclic |-> FALSE]
    /\ b_size = 1
    /\ b_pos = 0
    /\ b_out = <<>>
    /\ b_pc = "idle"

IdleExtract ==
    /\ ex_objects = <<>>
    /\ ex_types = [single |-> FALSE, ts |-> <<>>]
    /\ ex_ret = [kind |-> "pending", list |-> <<>>, map |-> <<>>]

OthersIdleForRoundTrip == IdleBatch /\ IdleExtract /\ IdleVariables /\ IdleFlow

\* A nested mapping, to be flattened and then nested again.
InitNested ==
    /\ OthersIdleForRoundTrip
    /\ rt_mode = "nested"
    /\ \E ks \in KeySeqs :
         \E f \in [1..Len(ks) -> NestedVals(MaxDepth - 1)] : rt_in0 = MakeDict(ks, f)
    /\ rt_in = rt_in0
    /\ rt_cur = Returned(rt_in0)
    /\ rt_calls = <<>>

\* A flat mapping, to be nested and then flattened again.
InitFlat ==
    /\ OthersIdleForRoundTrip
    /\ rt_mode = "flat"
    /\ \E ps \in PathSeqs :
         \E f \in [1..Len(ps) -> FlatVals] : rt_in0 = MakeDict(ps, f)
    /\ rt_in = rt_in0
    /\ rt_cur = Returned(rt_in0)
    /\ rt_calls = <<>>

IdleRoundTrip ==
    /\ rt_mode = "none"
    /\ rt_in0 = EmptyDict
    /\ rt_in = EmptyDict
    /\ rt_cur = Returned(EmptyDict)
    /\ rt_calls = <<>>

NextCall ==
    IF rt_mode = "nested"
    THEN IF rt_calls = <<>> THEN "dict_to_flatdict"
         ELSE IF rt_calls = <<"dict_to_flatdict">> THEN "flatdict_to_dict" ELSE "none"
    ELSE IF rt_mode = "flat"
    THEN IF rt_calls = <<>> THEN "flatdict_to_dict"
         ELSE IF rt_calls = <<"flatdict_to_dict">> THEN "dict_to_flatdict" ELSE "none"
    ELSE "none"

CallDictToFlatdict ==
    /\ rt_cur.ok
    /\ NextCall = "dict_to_flatdict"
    /\ rt_cur' = Returned(dict_to_flatdict(rt_cur.val))
    /\ rt_calls' = Append(rt_calls, "dict_to_flatdict")
    /\ UNCHANGED <<rt_mode, rt_in0, rt_in, bVars, exVars, vVars, fVars>>

CallFlatdictToDict ==
    /\ rt_cur.ok
    /\ NextCall = "flatdict_to_dict"
    /\ rt_cur' = flatdict_to_dict(rt_cur.val)
    /\ rt_in' = IF rt_calls = <<>>
                THEN Dict(ArgAfter(rt_in.items, 1, EmptyDict))
                ELSE rt_in
    /\ rt_calls' = Append(rt_calls, "flatdict_to_dict")
    /\ UNCHANGED <<rt_mode, rt_in0, bVars, exVars, vVars, fVars>>

NextRoundTrip == CallDictToFlatdict \/ CallFlatdictToDict

SpecNested == InitNested /\ [][NextRoundTrip]_vars

SpecFlat == InitFlat /\ [][NextRoundTrip]_vars

(***************************************************************************)
(* batched_iterable(iterable, size): a generator; each step is one         *)
(* iteration of its loop, driven by the consumer's next().                 *)
(***************************************************************************)
\* Whether iter(iterable) has an element at 0-based position p, and which.
HasElem(src, p) == IF src.cyclic THEN src.items # <<>> ELSE p < Len(src.items)
ElemAt(src, p) == src.items[(p % Len(src.items)) + 1]

\* Number of elements itertools.islice(it, size) takes from position pos.
RECURSIVE Available(_, _, _)
Available(src, pos, want) ==
    IF want = 0 \/ ~HasElem(src, pos) THEN 0
    ELSE 1 + Available(src, pos + 1, want - 1)

\* islice with the stop index one short.
isliceOneShort(src, pos, size) ==
    LET n == Available(src, pos, IF size > 1 THEN size - 1 ELSE size)
    IN [i \in 1..n |-> ElemAt(src, pos + i - 1)]

\* islice with a size of 0 raised to 1.
isliceAtLeastOne(src, pos, size) ==
    LET n == Available(src, pos, IF size = 0 THEN 1 ELSE size)
    IN [i \in 1..n |-> ElemAt(src, pos + i - 1)]

islice(src, pos, size) ==
    LET n == Available(src, pos, size)
    IN [i \in 1..n |-> ElemAt(src, pos + i - 1)]

Sources ==
    {[items |-> [i \in 1..n |-> i], cyclic |-> c] : n \in 0..MaxSrcLen, c \in BOOLEAN}

InitBatch ==
    /\ IdleRoundTrip /\ IdleExtract /\ IdleVariables /\ IdleFlow
    /\ b_src \in Sources
    /\ b_size \in -1..MaxSize
    /\ b_pos = 0
    /\ b_out = <<>>
    /\ b_pc = "running"

\* size < 0: islice raises ValueError before taking anything.
BatchRaise ==
    /\ b_pc = "running"
    /\ b_size < 0
    /\ b_pc' = "raised"
    /\ UNCHANGED <<b_src, b_size, b_pos, b_out, rtVars, exVars, vVars, fVars>>

\* batch is empty: break.
BatchStop ==
    /\ b_pc = "running"
    /\ b_size >= 0
    /\ islice(b_src, b_pos, b_size) = <<>>
    /\ b_pc' = "done"
    /\ UNCHANGED <<b_src, b_size, b_pos, b_out, rtVars, exVars, vVars, fVars>>

\* batch is not empty: yield batch.
BatchYield ==
    /\ b_pc = "running"
    /\ b_size >= 0
    /\ b_src.cyclic => Len(b_out) < MaxYield
    /\ LET batch == islice(b_src, b_pos, b_size)
       IN /\ batch # <<>>
          /\ b_out' = Append(b_out, batch)
          /\ b_pos' = b_pos + Len(batch)
    /\ UNCHANGED <<b_src, b_size, b_pc, rtVars, exVars, vVars, fVars>>

NextBatch == BatchRaise \/ BatchStop \/ BatchYield

\* The consumer (a for loop, list(...)) keeps calling next() until the generator stops.
SpecBatch == InitBatch /\ [][NextBatch]_vars /\ WF_vars(NextBatch)

(***************************************************************************)
(* extract_instances(objects, types)                                       *)
(***************************************************************************)
\* The classes of the objects and the types asked for, with their bases.
Classes == {"str", "int", "bool", "object"}
Bases(cls) ==
    IF cls = "bool" THEN {"bool", "int", "object"}
    ELSE IF cls = "object" THEN {"object"}
    ELSE {cls, "object"}
isinstance(o, type_) == type_ \in Bases(o.cls)

Objects == {[cls |-> "str", id |-> 1], [cls |-> "int", id |-> 2],
            [cls |-> "int", id |-> 3], [cls |-> "bool", id |-> 4]}

\* ensure_iterable(obj): a tuple is a Sequence and is returned as it is, a single
\* type is wrapped in a list.
ensure_iterable(types) == IF types.single THEN <<types.ts[1]>> ELSE types.ts

\* ret[type_].append(o) on a defaultdict(list): the key appears with its first
\* append.
DefaultDictAppend(ret, type_, o) ==
    IF \E i \in 1..Len(ret) : ret[i].k = type_
    THEN [i \in 1..Len(ret) |->
            IF ret[i].k = type_ THEN Entry(type_, Append(ret[i].v, o)) ELSE ret[i]]
    ELSE Append(ret, Entry(type_, <<o>>))

\* The inner loop over types for one object.
RECURSIVE ExtractTypes(_, _, _)
ExtractTypes(ret, o, types) ==
    IF types = <<>> THEN ret
    ELSE ExtractTypes(
           IF isinstance(o, Head(types)) THEN DefaultDictAppend(ret, Head(types), o)
           ELSE ret,
           o, Tail(types))

\* The outer loop over objects.
RECURSIVE ExtractObjects(_, _, _)
ExtractObjects(ret, objects, types) ==
    IF objects = <<>> THEN ret
    ELSE ExtractObjects(ExtractTypes(ret, Head(objects), types), Tail(objects), types)

\* ret[key] on a defaultdict(list): a missing key gives a new empty list.
DefaultDictGet(ret, key) ==
    IF \E i \in 1..Len(ret) : ret[i].k = key
    THEN ret[CHOOSE i \in 1..Len(ret) : ret[i].k = key].v
    ELSE <<>>

extract_instances(objects, types0) ==
    LET types == ensure_iterable(types0)
        ret == ExtractObjects(<<>>, objects, types)
    IN IF Len(types) = 1
       THEN [kind |-> "list", list |-> DefaultDictGet(ret, types[1]), map |-> <<>>]
       ELSE [kind |-> "mapping", list |-> <<>>, map |-> ret]

TypeArgs ==
    {[single |-> TRUE, ts |-> <<c>>] : c \in Classes} \cup
    {[single |-> FALSE, ts |-> ts] :
        ts \in {t \in UNION {[1..n -> Classes] : n \in 0..MaxTypes} : Injective(t)}}

InitExtract ==
    /\ IdleRoundTrip /\ IdleBatch /\ IdleVariables /\ IdleFlow
    /\ ex_objects \in UNION {[1..n -> Objects] : n \in 0..MaxObjects}
    /\ ex_types \in TypeArgs
    /\ ex_ret = [kind |-> "pending", list |-> <<>>, map |-> <<>>]

CallExtractInstances ==
    /\ ex_ret.kind = "pending"
    /\ ex_ret' = extract_instances(ex_objects, ex_types)
    /\ UNCHANGED <<ex_objects, ex_types, rtVars, bVars, vVars, fVars>>

NextExtract == CallExtractInstances

SpecExtract == InitExtract /\ [][NextExtract]_vars

(***************************************************************************)
(* variables.get(name, default)                                            *)
(***************************************************************************)
VarNames == {"n1", "n2"}
VarValues == {"", "v", "d"}
Defaults == {PyNone, Str(""), Str("d")}
BoundaryErrors == {"ConnectError", "ServerError"}

\* The orchestration client's "read variable by name": the variable record, whose
\* value field holds what is stored, or None when there is no such variable.
read_variable_by_name(name) == v_store[name]

\* _get_variable_by_name(name, client): hands back what the client returned.
get_variable_by_name(name) == read_variable_by_name(name)

\* bool(variable): None is false, a variable record is an object and is true.
Truthy(variable) == ~variable.isNone

\* get with the truth value of the stored value in place of the record's.
getTestsValue(variable, default) ==
    IF Truthy(variable) /\ variable.value # "" THEN Str(variable.value) ELSE default

\* return variable.value if variable else default
get(variable, default) ==
    IF Truthy(variable) THEN Str(variable.value) ELSE default

InitVariables ==
    /\ IdleRoundTrip /\ IdleBatch /\ IdleExtract /\ IdleFlow
    /\ v_store = [n \in VarNames |-> PyNone]
    /\ v_call = [kind |-> "none"]

\* Other clients of the orchestration API set and delete variables.
RemoteSet ==
    \E n \in VarNames, x \in VarValues :
        /\ v_store' = [v_store EXCEPT ![n] = Str(x)]
        /\ UNCHANGED <<v_call, rtVars, bVars, exVars, fVars>>

RemoteDelete ==
    \E n \in VarNames :
        /\ ~v_store[n].isNone
        /\ v_store' = [v_store EXCEPT ![n] = PyNone]
        /\ UNCHANGED <<v_call, rtVars, bVars, exVars, fVars>>

\* get(name, default) when the client call returns.
Get ==
    \E name \in VarNames, default \in Defaults :
        LET variable == get_variable_by_name(name)
        IN /\ v_call' = [kind |-> "returned", name |-> name, default |-> default,
                         stored |-> v_store[name], boundary_exc |-> "none",
                         value |-> get(variable, default), exc |-> "none"]
           /\ UNCHANGED <<v_store, rtVars, bVars, exVars, fVars>>

\* get(name, default) when the client call raises: nothing catches the error.
GetRaises ==
    \E name \in VarNames, default \in Defaults, e \in BoundaryErrors :
        /\ v_call' = [kind |-> "raised", name |-> name, default |-> default,
                      stored |-> v_store[name], boundary_exc |-> e,
                      value |-> PyNone, exc |-> e]
        /\ UNCHANGED <<v_store, rtVars, bVars, exVars, fVars>>

NextVariables == RemoteSet \/ RemoteDelete \/ Get \/ GetRaises

SpecVariables == InitVariables /\ [][NextVariables]_vars

\* C4: when the boundary reports no variable of the name, get returns the default
\* given (None when none was given) and does not raise; when the boundary
\* resolves the name, get returns the stored value, not the default; an error the
\* boundary raises reaches the caller as it is.
C4_Get ==
    /\ (v_call.kind # "none" /\ v_call.boundary_exc = "none") =>
          /\ v_call.kind = "returned"
          /\ v_call.stored.isNone => v_call.value = v_call.default
          /\ ~v_call.stored.isNone => v_call.value = Str(v_call.stored.value)
    /\ (v_call.kind # "none" /\ v_call.boundary_exc # "none") =>
          /\ v_call.kind = "raised"
          /\ v_call.exc = v_call.boundary_exc

C4_Witness ==
    /\ v_call.kind = "returned"
    /\ ~v_call.stored.isNone
    /\ v_call.stored.value = ""
    /\ v_call.default = Str("d")
    /\ v_call.value = Str("")

(***************************************************************************)
(* prefect/core/flow.py: Flow and the flow decorator.                      *)
(***************************************************************************)
\* The values passed as fn: None, the integers 0 and 5, two functions
\*     def hello(): return 0
\*     def scale(x: int, factor: int = 2): return x * factor
\* and a callable object that is empty (its truth value is false).
FnValues ==
    {[id |-> "None", callable |-> FALSE, truthy |-> FALSE],
     [id |-> "0", callable |-> FALSE, truthy |-> FALSE],
     [id |-> "5", callable |-> FALSE, truthy |-> TRUE],
     [id |-> "hello", callable |-> TRUE, truthy |-> TRUE],
     [id |-> "scale", callable |-> TRUE, truthy |-> TRUE],
     [id |-> "empty_callable", callable |-> TRUE, truthy |-> FALSE]}

FnOf(id) == CHOOSE f \in FnValues : f.id = id

\* The name argument: "" stands for a name that is not given (None).
NameArgs == {"", "etl"}

\* inspect.signature(fn): the parameters in order, all annotated int.
Signature(id) ==
    IF id = "scale"
    THEN <<[name |-> "x", required |-> TRUE, default |-> 0],
           [name |-> "factor", required |-> FALSE, default |-> 2]>>
    ELSE <<>>

ParamNames(sig) == {sig[i].name : i \in 1..Len(sig)}

\* The function's body, on its parameters' values.
Body(id, p) == IF id = "scale" THEN p["x"] * p["factor"] ELSE 0

\* The values passed as arguments: the int 1 and the str "abc" by position, the
\* str "2" by keyword.
IntVal(n) == [cls |-> "int", n |-> n, text |-> ""]
StrVal(t) == [cls |-> "str", n |-> 0, text |-> t]
ArgValues == {IntVal(1), StrVal("abc")}

\* int(text) for the strs that denote an integer.
IntOfText == ("1" :> 1) @@ ("2" :> 2) @@ ("3" :> 3)

\* The validation layer's coercion to a parameter's declared type, int.
CoerceInt(v) ==
    IF v.cls = "int" THEN Returned(v.n)
    ELSE IF v.text \in DOMAIN IntOfText THEN Returned(IntOfText[v.text])
    ELSE Raised("ValidationError")

\* Flow.__init__ with a callable test that lets every truthy value pass.
FlowInitNoCallableTest(name, fn) ==
    IF ~fn.truthy THEN Raised("TypeError")
    ELSE [ok |-> TRUE, exc |-> "none",
          val |-> [name |-> IF name # "" THEN name ELSE fn.id, fn |-> fn.id]]

\* Flow.__init__(name, fn): the Flow object, or the TypeError raised.  The other
\* arguments (version, executor, description, tags) are stored and decide nothing.
FlowInit(name, fn) ==
    IF ~fn.truthy THEN Raised("TypeError")
    ELSE IF ~fn.callable THEN Raised("TypeError")
    ELSE [ok |-> TRUE, exc |-> "none",
          val |-> [name |-> IF name # "" THEN name ELSE fn.id, fn |-> fn.id]]

\* Signature.bind_partial(*args, **kwargs).arguments: the positional arguments
\* go to the first parameters, the keywords to the parameters of their names;
\* parameters that get no argument are left out, required or not.
bind_partial(sig, args, kwargs) ==
    IF Len(args) > Len(sig) THEN Raised("TypeError")
    ELSE IF \E i \in 1..Len(kwargs) : kwargs[i].k \notin ParamNames(sig)
    THEN Raised("TypeError")
    ELSE IF \E i \in 1..Len(kwargs), j \in 1..Len(args) : kwargs[i].k = sig[j].name
    THEN Raised("TypeError")
    ELSE [ok |-> TRUE, exc |-> "none",
          val |-> [n \in {sig[j].name : j \in 1..Len(args)} \cup
                          {kwargs[i].k : i \in 1..Len(kwargs)} |->
                     IF \E j \in 1..Len(args) : sig[j].name = n
                     THEN args[CHOOSE j \in 1..Len(args) : sig[j].name = n]
                     ELSE kwargs[CHOOSE i \in 1..Len(kwargs) : kwargs[i].k = n].v]]

\* self.fn(*args, **kwargs), self.fn = validate_arguments(fn): the arguments are
\* bound, a required parameter without an argument or an argument that cannot be
\* coerced is a ValidationError, otherwise fn runs on the coerced arguments and
\* the defaults.
ValidatedCall(id, args, kwargs) ==
    LET sig == Signature(id)
        b == bind_partial(sig, args, kwargs)
    IN IF ~b.ok THEN Raised("ValidationError")
       ELSE IF \E i \in 1..Len(sig) : sig[i].required /\ sig[i].name \notin DOMAIN b.val
       THEN Raised("ValidationError")
       ELSE IF \E n \in DOMAIN b.val : ~CoerceInt(b.val[n]).ok
       THEN Raised("ValidationError")
       ELSE Returned(Body(id, [n \in ParamNames(sig) |->
                                 IF n \in DOMAIN b.val THEN CoerceInt(b.val[n]).val
                                 ELSE sig[CHOOSE i \in 1..Len(sig) : sig[i].name = n].default]))

Callers == 1..NumCalls

ArgSeqs == UNION {[1..n -> ArgValues] : n \in 0..MaxArgs}
KwargSeqs == {<<>>} \cup {<<Entry(k, StrVal("2"))>> : k \in {"x", "z"}}

\* Flow(name=name, fn=fn) called from op: the object is kept when there is one.
Construction(op, name, fn) ==
    LET r == FlowInit(name, fn)
    IN /\ flows' = IF r.ok THEN flows \cup {r.val} ELSE flows
       /\ ctor' = [op |-> op, init |-> TRUE, fn |-> fn.id, name |-> name, exc |-> r.exc]
       /\ UNCHANGED <<deferred, inv, runs, rtVars, bVars, exVars, vVars>>

\* Flow(name=..., fn=...) called directly; Flow(name=...) has fn = None.
Construct ==
    \E name \in NameArgs, fn \in FnValues : Construction("Flow", name, fn)

\* flow(_fn, name=...) with _fn not None: return Flow(fn=_fn, name=name).
Decorate ==
    \E name \in NameArgs, fn \in FnValues :
        /\ fn.id # "None"
        /\ Construction("flow", name, fn)

\* flow(name=...) with _fn None: return the deferred constructor.
DecorateDeferred ==
    \E name \in NameArgs :
        /\ deferred' = deferred \cup {name}
        /\ ctor' = [op |-> "flow", init |-> FALSE, fn |-> "None", name |-> name,
                    exc |-> "none"]
        /\ UNCHANGED <<flows, inv, runs, rtVars, bVars, exVars, vVars>>

\* A deferred constructor applied: lambda _fn: Flow(fn=_fn, name=name).
ApplyDeferred ==
    \E name \in deferred, fn \in FnValues : Construction("deferred", name, fn)

\* Flow.__call__, line 62: the arguments are bound; a TypeError ends the call.
Invoke(i) ==
    \E f \in flows, args \in ArgSeqs, kwargs \in KwargSeqs :
        LET b == bind_partial(Signature(f.fn), args, kwargs)
        IN /\ inv[i].pc = "idle"
           /\ inv' = [inv EXCEPT ![i] =
                        [@ EXCEPT !.flow = f, !.args = args, !.kwargs = kwargs,
                                  !.pc = IF b.ok THEN "registering" ELSE "raised",
                                  !.parameters = IF b.ok THEN b.val ELSE <<>>,
                                  !.exc = b.exc]]
           /\ UNCHANGED <<flows, deferred, ctor, runs, rtVars, bVars, exVars, vVars>>

\* The run the orchestration API creates for create_flow_run_sync(flow, parameters).
create_flow_run(i) ==
    [id |-> Len(runs) + 1, flow |-> inv[i].flow, parameters |-> inv[i].parameters,
     by |-> i]

\* Line 63 returns: the run is created and its id is the call's flow_run_id.
Register(i) ==
    /\ inv[i].pc = "registering"
    /\ runs' = Append(runs, create_flow_run(i))
    /\ inv' = [inv EXCEPT ![i] = [@ EXCEPT !.flow_run_id = create_flow_run(i).id,
                                           !.pc = "running"]]
    /\ UNCHANGED <<flows, deferred, ctor, rtVars, bVars, exVars, vVars>>

\* Line 63 raises: the error of the orchestration API ends the call.
RegisterFails(i) ==
    /\ inv[i].pc = "registering"
    /\ inv' = [inv EXCEPT ![i] = [@ EXCEPT !.exc = "BoundaryError", !.pc = "raised"]]
    /\ UNCHANGED <<flows, deferred, ctor, runs, rtVars, bVars, exVars, vVars>>

\* PrefectFuture with the id of the run created last, whoever created it.
PrefectFutureLatestRun(i, result) ==
    [made |-> TRUE, run_id |-> Len(runs), result |-> result]

\* Line 65: PrefectFuture(run_id=flow_run_id, result=result).
PrefectFuture(i, result) ==
    [made |-> TRUE, run_id |-> inv[i].flow_run_id, result |-> result]

\* Lines 64-65 from pc: self._run(*args, **kwargs), then the PrefectFuture; an
\* error of the validated callable ends the call.
RunFrom(i, pcs) ==
    LET r == ValidatedCall(inv[i].flow.fn, inv[i].args, inv[i].kwargs)
    IN /\ inv[i].pc \in pcs
       /\ inv' = [inv EXCEPT ![i] =
                    [@ EXCEPT !.called = TRUE,
                              !.pc = IF r.ok THEN "done" ELSE "raised",
                              !.exc = r.exc,
                              !.future = IF r.ok THEN PrefectFuture(i, r.val) ELSE @]]
       /\ UNCHANGED <<flows, deferred, ctor, runs, rtVars, bVars, exVars, vVars>>

\* Lines 64-65 taken without waiting for line 63.
RunBeforeRegistration(i) == RunFrom(i, {"registering", "running"})

Run(i) == RunFrom(i, {"running"})

InitFlowIdle ==
    /\ IdleRoundTrip /\ IdleBatch /\ IdleExtract /\ IdleVariables
    /\ deferred = {}
    /\ ctor = NoCtor
    /\ inv = [i \in Callers |-> NoInvocation]
    /\ runs = <<>>

\* The flows of a program are defined when it is loaded: hello and scale,
\* decorated with @flow.
InitFlow ==
    /\ InitFlowIdle
    /\ flows = {FlowInit("", FnOf("hello")).val, FlowInit("", FnOf("scale")).val}

NextFlow ==
    \E i \in Callers : Invoke(i) \/ Register(i) \/ RegisterFails(i) \/ Run(i)

\* Concurrent invocations of the flows defined.
SpecFlow == InitFlow /\ [][NextFlow]_vars

InitDefine ==
    /\ InitFlowIdle
    /\ flows = {}

NextDefine ==
    \/ Construct
    \/ Decorate
    \/ DecorateDeferred
    \/ ApplyDeferred
    \/ Invoke(1) \/ Register(1) \/ RegisterFails(1) \/ Run(1)

\* Definition of flows, and a caller that invokes what was defined.
SpecDefine == InitDefine /\ [][NextDefine]_vars

(***************************************************************************)
(* Properties of Flow.                                                     *)
(***************************************************************************)
RunsBy(i) == {k \in 1..Len(runs) : runs[k].by = i}

\* The invocation's arguments are ones the wrapped callable cannot accept: too
\* many positionals, an unknown keyword, a required argument missing, a value that
\* cannot be coerced.
Malformed(i) ==
    /\ inv[i].pc # "idle"
    /\ ~ValidatedCall(inv[i].flow.fn, inv[i].args, inv[i].kwargs).ok

\* C1: an invocation with arguments the wrapped callable cannot accept fails
\* before any registration: no flow run is ever created for it.
C1_MalformedNeverRegisters ==
    \A i \in Callers : (Malformed(i) /\ inv[i].pc = "raised") => RunsBy(i) = {}

\* C2: within an invocation the wrapped callable is called only after the
\* registration of that invocation has returned a run id; when registration
\* raises, the callable is not called and no PrefectFuture is made.
C2_RegistrationFirst ==
    \A i \in Callers :
        /\ inv[i].called =>
              /\ inv[i].flow_run_id # 0
              /\ \E k \in RunsBy(i) : runs[k].id = inv[i].flow_run_id
        /\ inv[i].exc = "BoundaryError" =>
              /\ inv[i].pc = "raised"
              /\ ~inv[i].called
              /\ ~inv[i].future.made

C2_Witness ==
    /\ inv[1].exc = "BoundaryError"
    /\ inv[2].called
    /\ inv[2].future.made

\* C3: the PrefectFuture an invocation returns carries the id of the run that
\* same invocation registered and the value the callable gives for that
\* invocation's own arguments, never the id or result of another invocation,
\* however the invocations interleave.
C3_OwnRunAndResult ==
    \A i \in Callers :
        inv[i].future.made =>
            /\ inv[i].pc = "done"
            /\ \E k \in RunsBy(i) : runs[k].id = inv[i].future.run_id
            /\ \A k \in 1..Len(runs) :
                  runs[k].id = inv[i].future.run_id => runs[k].by = i
            /\ inv[i].future.result =
                  ValidatedCall(inv[i].flow.fn, inv[i].args, inv[i].kwargs).val
            /\ \A j \in Callers \ {i} :
                  inv[j].future.made => inv[j].future.run_id # inv[i].future.run_id

C3_Witness ==
    /\ inv[1].future.made /\ inv[2].future.made
    /\ inv[1].flow = inv[2].flow
    /\ inv[1].args = <<IntVal(1)>> /\ inv[2].kwargs = <<Entry("x", StrVal("2"))>>
    /\ inv[1].future.result = 2 /\ inv[2].future.result = 4
    /\ inv[1].future.run_id = 2 /\ inv[2].future.run_id = 1

\* C9: Flow.__init__, called directly, by the flow decorator or by a deferred
\* constructor, with fn None or not callable (an integer, zero or not) raises
\* TypeError; no Flow object wraps such a value and no flow run is created for one.
C9_BadFnRaises ==
    /\ (ctor.init /\ (ctor.fn = "None" \/ ~FnOf(ctor.fn).callable)) =>
          ctor.exc = "TypeError"
    /\ \A f \in flows : f.fn # "None" /\ FnOf(f.fn).callable
    /\ \A k \in 1..Len(runs) : runs[k].flow.fn # "None" /\ FnOf(runs[k].flow.fn).callable

C9_Witness ==
    /\ ctor.op = "deferred"
    /\ ctor.fn = "5"
    /\ ctor.exc = "TypeError"
    /\ Len(runs) = 1

(***************************************************************************)
(* Properties of the collection utilities.                                 *)
(***************************************************************************)
RoundTripDone == Len(rt_calls) = 2

\* C5: for every nested mapping d with non-mapping leaves, also one that holds an
\* empty nested mapping, flatdict_to_dict(dict_to_flatdict(d)) returns and equals d.
C5_NestedRoundTrip ==
    (rt_mode = "nested" /\ RoundTripDone) => (rt_cur.ok /\ PyEq(rt_cur.val, rt_in0))

\* A flat mapping as dict_to_flatdict produces them: no empty key tuple, no key
\* tuple a proper prefix of another, no value that is a mapping.
FlatAsGenerated(f) ==
    /\ \A i \in 1..Len(f.items) : f.items[i].k # <<>> /\ ~IsDict(f.items[i].v)
    /\ \A i, j \in 1..Len(f.items) : ~IsProperPrefix(f.items[i].k, f.items[j].k)

FlatRoundTripHolds ==
    /\ rt_calls # <<>> => rt_cur.ok
    /\ RoundTripDone => (PyEq(rt_cur.val, rt_in) /\ PyEq(rt_cur.val, rt_in0))

\* C6 as stated: for every flat mapping f keyed by path tuples, also with a key
\* tuple that is a proper prefix of another, an empty key tuple or a mapping as a
\* value, dict_to_flatdict(flatdict_to_dict(f)) completes without error and
\* equals f.
C6_AnyFlatRoundTrip == rt_mode = "flat" => FlatRoundTripHolds

\* C6 amended: for every flat mapping f whose key tuples are not empty, none a
\* proper prefix of another, and whose values are not mappings,
\* dict_to_flatdict(flatdict_to_dict(f)) completes without error and equals f.
C6_GeneratedFlatRoundTrip ==
    (rt_mode = "flat" /\ FlatAsGenerated(rt_in0)) => FlatRoundTripHolds

C6_Witness ==
    /\ rt_mode = "flat"
    /\ RoundTripDone
    /\ FlatAsGenerated(rt_in0)
    /\ DictKeys(rt_in0) = {<<"a", "a">>, <<"a", "b">>}
    /\ PyEq(rt_cur.val, rt_in0)

Matching(type_) == SelectSeq(ex_objects, LAMBDA o : isinstance(o, type_))

\* C8: with exactly one type asked for the result is the list of the objects that
\* are instances of it, in order; with a tuple of several types it is a mapping
\* that has every type asked for as a key, each with the list of the objects
\* matching it, in order, also for a type no object matches.
C8_ExtractInstances ==
    ex_ret.kind # "pending" =>
        IF Len(ex_types.ts) = 1
        THEN ex_ret.kind = "list" /\ ex_ret.list = Matching(ex_types.ts[1])
        ELSE Len(ex_types.ts) >= 2 =>
               /\ ex_ret.kind = "mapping"
               /\ \A n \in 1..Len(ex_types.ts) :
                     \E i \in 1..Len(ex_ret.map) :
                        /\ ex_ret.map[i].k = ex_types.ts[n]
                        /\ ex_ret.map[i].v = Matching(ex_types.ts[n])

CeilDiv(n, s) == (n + s - 1) \div s

RECURSIVE Concat(_)
Concat(batches) ==
    IF batches = <<>> THEN <<>> ELSE Head(batches) \o Concat(Tail(batches))

FiniteBatching == ~b_src.cyclic /\ b_size >= 1

BatchesWellFormed ==
    LET n == Len(b_src.items)
        k == Len(b_out)
    IN /\ b_pc # "raised"
       /\ k <= CeilDiv(n, b_size)
       /\ \A i \in 1..k : Len(b_out[i]) >= 1 /\ Len(b_out[i]) <= b_size
       /\ \A i \in 1..(k - 1) : Len(b_out[i]) = b_size
       /\ Concat(b_out) = SubSeq(b_src.items, 1, b_pos)
       /\ b_pc = "done" => (k = CeilDiv(n, b_size) /\ Concat(b_out) = b_src.items)

\* C7: over a finite sequence of length n with a batch size s >= 1 the generator
\* stops after exactly ceil(n/s) batches; every batch but the last has s
\* elements, the last has 1..s, none is empty, and the batches concatenated in
\* order are the sequence.
C7_Batches ==
    /\ [](FiniteBatching => BatchesWellFormed)
    /\ (FiniteBatching ~> b_pc = "done")

C7_Witness ==
    /\ b_pc = "done"
    /\ b_size = 3
    /\ ~b_src.cyclic
    /\ b_out = << <<1, 2, 3>>, <<4, 5, 6>>, <<7>> >>

\* C10: with a batch size of 0 the generator yields no batch, takes no element
\* of the iterable and stops, whatever the iterable (not empty, unbounded).
C10_SizeZero ==
    /\ [](b_size = 0 => (b_out = <<>> /\ b_pos = 0 /\ b_pc \in {"running", "done"}))
    /\ (b_size = 0 ~> b_pc = "done")

C10_Witness ==
    /\ b_size = 0
    /\ b_src.cyclic
    /\ b_src.items # <<>>
    /\ b_pc = "done"
    /\ b_pos = 0

====
